---- MODULE Spec2Model ----
(***************************************************************************)
(* Model of the Printer matcher (src/find/matchers/printer.rs).            *)
(*                                                                         *)
(* One invocation of Printer::matches is modelled step by step:            *)
(*   Call       line 74-82  destination selection (file target, or a      *)
(*                          borrow_mut() of the context's default sink)    *)
(*   WritePath  line 48-53  write!  -- first piece, the lossy path         *)
(*   WriteDelim line 48-53  write!  -- second piece, the delimiter         *)
(*   WriteErr   line 55-66  the Err(e) arm of the match                    *)
(*   Flush      line 68     out.flush().unwrap()                           *)
(*   Return     line 83-84  the borrow is dropped, `true` is returned      *)
(*                                                                         *)
(* write!(out, "{}{}", path, delimiter) goes through io::Write::write_fmt, *)
(* which hands every formatted piece to write_all separately; a write_all  *)
(* that fails may already have pushed a prefix of its piece into the sink. *)
(* The destination is any `impl Write`: its write and its flush may fail.  *)
(***************************************************************************)
EXTENDS Naturals, Sequences, FiniteSets

\* ---------------------------------------------------------------- bounds
\* invocations of matches in one run
MaxCalls == 2
\* bytes in an entry's path
MaxPathLen == 1
\* concurrent callers of the walk (specification ConcSpec only)
NumWalkers == 2

\* ------------------------------------------------------------ data model
\* Path bytes: an ASCII byte, and 0x80, which is not valid UTF-8 on its own.
PathBytes == {"a", "x80"}

RECURSIVE SeqsUpTo(_)
SeqsUpTo(n) ==
  IF n = 0 THEN {<<>>}
  ELSE LET S == SeqsUpTo(n - 1)
       IN S \cup {Append(s, b) : s \in {t \in S : Len(t) = n - 1}, b \in PathBytes}

\* WalkEntry::path() of the entries the walk hands to the matcher
Paths == SeqsUpTo(MaxPathLen) \ {<<>>}

Walkers == 1..NumWalkers

\* enum PrintDelimiter
PrintDelimiter == {"Newline", "Null"}

\* impl Display for PrintDelimiter: writeln!(f) gives "\n", write!(f, "\0") NUL
FmtSwapped(d) == IF d = "Newline" THEN <<"NUL">> ELSE <<"LF">>
Fmt(d) == IF d = "Newline" THEN <<"LF">> ELSE <<"NUL">>

\* Path::to_string_lossy: valid bytes are kept, every invalid byte sequence
\* becomes U+FFFD, which is EF BF BD in the UTF-8 that is written out
RECURSIVE ToStringLossy(_)
ToStringLossy(p) ==
  IF p = <<>> THEN <<>>
  ELSE (IF Head(p) = "x80" THEN <<"EF", "BF", "BD">> ELSE <<Head(p)>>)
       \o ToStringLossy(Tail(p))

VARIABLES
  delimiter,    \* Printer.delimiter
  output_file,  \* Printer.output_file is Some(_)
  file,         \* the file target:  [data, pending]
  output,       \* the default sink: [data, pending]
  borrowed,     \* the RefCell flag of matcher_io.deps.get_output()
  stderr,       \* diagnostics written to stderr(), each the path it names
  exit_code,    \* matcher_io's exit code
  panicked,     \* "none", or what unwrap()/borrow_mut() panicked on
  walkers,      \* the callers that invoke the matcher
  pc,           \* each caller's position in matches/print
  frame,        \* each caller's locals
  log,          \* history: the invocations that returned, in return order
  ncalls,       \* history: invocations started
  touched       \* history: <<destination, operation>> pairs performed

vars == <<delimiter, output_file, file, output, borrowed, stderr, exit_code,
          panicked, walkers, pc, frame, log, ncalls, touched>>

EmptySink == [data |-> <<>>, pending |-> 0]

NoFrame == [entry |-> <<>>, out |-> "none", print_error_message |-> FALSE,
            wres |-> "none", fres |-> "none", ret |-> "none",
            pre_exit |-> 0, pre_data |-> <<>>, pre_err |-> 0]

\* ----------------------------------------------------- pieces of the code
\* matches, line 74: which destination `out` is
SelectOutAlwaysDefault(has_file) == "output"
SelectOut(has_file) == IF has_file THEN "file" ELSE "output"

\* matches, lines 75 and 81: the print_error_message argument
PrintErrorMessageNegated(has_file) == ~has_file
PrintErrorMessage(has_file) == has_file

\* print, line 64: matcher_io.set_exit_code(1)
ErrExitCode == 1

\* MatcherIO::set_exit_code
SetExitCode(cur, code) == code

\* print, lines 56-65: the exit code after the Err arm
ExitAfterErrReset(pem, cur) == IF pem THEN 0 ELSE cur
ExitAfterErrSkipped(pem, cur) == cur
ExitAfterErr(pem, cur) == IF pem THEN SetExitCode(cur, ErrExitCode) ELSE cur

\* print, line 68: out.flush().unwrap()
AfterFlushIgnored(ok) == "return"
AfterFlush(ok) == IF ok THEN "return" ELSE "panic"

\* matches, line 84
MatchesResultFalse == FALSE
MatchesResult == TRUE

\* matches, line 77-83: the RefMut temporary is dropped at the end of the
\* statement, which releases the RefCell
BorrowAfterKept(out, b) == b
BorrowAfter(out, b) == IF out = "output" THEN FALSE ELSE b

\* Write::write_all of `piece`, of which the sink takes k bytes
WriteAll(s, piece, k) ==
  [data |-> s.data \o SubSeq(piece, 1, k), pending |-> s.pending + k]

\* Write::flush that succeeds
FlushedNot(s) == s
Flushed(s) == [s EXCEPT !.pending = 0]

Sink(o) == IF o = "file" THEN file ELSE output

\* ------------------------------------------------------------------ Init
InitWith(ws) ==
  /\ delimiter \in PrintDelimiter
  /\ output_file \in BOOLEAN
  /\ file = EmptySink
  /\ output = EmptySink
  /\ borrowed = FALSE
  /\ stderr = <<>>
  /\ exit_code \in {0, ErrExitCode}  \* an earlier matcher may have set it
  /\ panicked = "none"
  /\ walkers = ws
  /\ pc = [w \in Walkers |-> "idle"]
  /\ frame = [w \in Walkers |-> NoFrame]
  /\ log = <<>>
  /\ ncalls = 0
  /\ touched = {}

\* the walk calls the matcher from one thread
Init == InitWith({1})

\* the walk calls the matcher from several workers
ConcInit == InitWith(Walkers)

\* --------------------------------------------------------------- actions
\* matches is entered with entry p (lines 73-82, up to the call of print)
Call(w, p) ==
  /\ panicked = "none"
  /\ w \in walkers
  /\ pc[w] = "idle"
  /\ ncalls < MaxCalls
  /\ ncalls' = ncalls + 1
  /\ LET o == SelectOut(output_file)
     IN IF o = "output" /\ borrowed
        THEN \* RefCell::borrow_mut panics when the cell is already borrowed
             /\ panicked' = "borrow"
             /\ UNCHANGED <<pc, frame, borrowed>>
        ELSE /\ panicked' = panicked
             /\ borrowed' = (IF o = "output" THEN TRUE ELSE borrowed)
             /\ pc' = [pc EXCEPT ![w] = "write_path"]
             /\ frame' = [frame EXCEPT ![w] =
                  [entry |-> p, out |-> o,
                   print_error_message |-> PrintErrorMessage(output_file),
                   wres |-> "none", fres |-> "none", ret |-> "none",
                   pre_exit |-> exit_code, pre_data |-> Sink(o).data,
                   pre_err |-> Len(stderr)]]
  /\ UNCHANGED <<delimiter, output_file, file, output, stderr, exit_code,
                 walkers, log, touched>>

\* write_all of one piece into the caller's destination; k bytes are taken
WritePiece(w, piece, k, next) ==
  /\ k \in 0..Len(piece)
  /\ IF frame[w].out = "file"
     THEN file' = WriteAll(file, piece, k) /\ output' = output
     ELSE output' = WriteAll(output, piece, k) /\ file' = file
  /\ touched' = touched \cup {<<frame[w].out, "write">>}
  /\ IF k = Len(piece)
     THEN /\ pc' = [pc EXCEPT ![w] = next]
          /\ frame' = IF next = "flush"
                      THEN [frame EXCEPT ![w].wres = "ok"]
                      ELSE frame
     ELSE /\ pc' = [pc EXCEPT ![w] = "write_err"]
          /\ frame' = [frame EXCEPT ![w].wres = "err"]

\* print, lines 48-53, first argument: file_info.path().to_string_lossy()
WritePath(w) ==
  /\ panicked = "none"
  /\ pc[w] = "write_path"
  /\ \E k \in 0..Len(ToStringLossy(frame[w].entry)) :
       WritePiece(w, ToStringLossy(frame[w].entry), k, "write_delim")
  /\ UNCHANGED <<delimiter, output_file, borrowed, stderr, exit_code,
                 panicked, walkers, log, ncalls>>

\* print, lines 48-53, second argument: self.delimiter
WriteDelim(w) ==
  /\ panicked = "none"
  /\ pc[w] = "write_delim"
  /\ \E k \in 0..1 : WritePiece(w, Fmt(delimiter), k, "flush")
  /\ UNCHANGED <<delimiter, output_file, borrowed, stderr, exit_code,
                 panicked, walkers, log, ncalls>>

\* print, lines 55-66: Err(e) => if print_error_message { writeln!(stderr(),
\* ...).unwrap(); set_exit_code(1) }.  stderr_ok: whether stderr takes the line
WriteErr(w) ==
  /\ panicked = "none"
  /\ pc[w] = "write_err"
  /\ \E stderr_ok \in BOOLEAN :
       IF frame[w].print_error_message /\ ~stderr_ok
       THEN /\ panicked' = "stderr"
            /\ UNCHANGED <<stderr, exit_code, pc>>
       ELSE /\ panicked' = panicked
            /\ stderr' = IF frame[w].print_error_message
                         THEN Append(stderr, ToStringLossy(frame[w].entry))
                         ELSE stderr
            /\ exit_code' = ExitAfterErr(frame[w].print_error_message, exit_code)
            /\ pc' = [pc EXCEPT ![w] = "flush"]
  /\ UNCHANGED <<delimiter, output_file, file, output, borrowed, walkers,
                 frame, log, ncalls, touched>>

\* print, line 68: out.flush().unwrap()
Flush(w) ==
  /\ panicked = "none"
  /\ pc[w] = "flush"
  /\ touched' = touched \cup {<<frame[w].out, "flush">>}
  /\ \E ok \in BOOLEAN :
       /\ frame' = [frame EXCEPT ![w].fres = IF ok THEN "ok" ELSE "err"]
       /\ IF AfterFlush(ok) = "panic"
          THEN /\ panicked' = "flush"
               /\ UNCHANGED <<pc, file, output>>
          ELSE /\ panicked' = panicked
               /\ pc' = [pc EXCEPT ![w] = "return"]
               /\ IF ~ok
                  THEN UNCHANGED <<file, output>>
                  ELSE IF frame[w].out = "file"
                       THEN file' = Flushed(file) /\ output' = output
                       ELSE output' = Flushed(output) /\ file' = file
  /\ UNCHANGED <<delimiter, output_file, borrowed, stderr, exit_code,
                 walkers, log, ncalls>>

\* matches, lines 83-84: the statement ends, `true` is returned
Return(w) ==
  /\ panicked = "none"
  /\ pc[w] = "return"
  /\ borrowed' = BorrowAfter(frame[w].out, borrowed)
  /\ frame' = [frame EXCEPT ![w].ret = IF MatchesResult THEN "true" ELSE "false"]
  /\ pc' = [pc EXCEPT ![w] = "idle"]
  /\ log' = Append(log, [path |-> frame[w].entry, out |-> frame[w].out,
                         wres |-> frame[w].wres, fres |-> frame[w].fres,
                         ret |-> MatchesResult])
  /\ UNCHANGED <<delimiter, output_file, file, output, stderr, exit_code,
                 panicked, walkers, ncalls, touched>>

Next ==
  \E w \in Walkers :
    \/ \E p \in Paths : Call(w, p)
    \/ WritePath(w)
    \/ WriteDelim(w)
    \/ WriteErr(w)
    \/ Flush(w)
    \/ Return(w)

Spec == Init /\ [][Next]_vars

ConcSpec == ConcInit /\ [][Next]_vars

\* ------------------------------------------------------------ properties
\* what the specification of the matcher expects to be written
ExpectedDelimiter == IF delimiter = "Newline" THEN <<"LF">> ELSE <<"NUL">>

ExpectedRecord(p) == ToStringLossy(p) \o ExpectedDelimiter

IsAscii(p) == \A i \in 1..Len(p) : p[i] # "x80"

\* the destination the Printer was constructed for
Chosen == IF output_file THEN "file" ELSE "output"

\* caller w is between two invocations and its last invocation returned
Returned(w) == pc[w] = "idle" /\ frame[w].ret # "none"

AllIdle == \A w \in Walkers : pc[w] = "idle"

RECURSIVE ConcatInOrder(_)
ConcatInOrder(l) ==
  IF l = <<>> THEN <<>>
  ELSE ExpectedRecord(Head(l).path) \o ConcatInOrder(Tail(l))

C4_PathThenDelimiter ==
  \A w \in Walkers :
    (Returned(w) /\ ~output_file /\ frame[w].wres = "ok") =>
      /\ frame[w].ret = "true"
      /\ output.data = frame[w].pre_data \o ExpectedRecord(frame[w].entry)
      /\ IsAscii(frame[w].entry) =>
           output.data = frame[w].pre_data \o frame[w].entry \o ExpectedDelimiter
      /\ output.data[Len(output.data)] =
           (IF delimiter = "Newline" THEN "LF" ELSE "NUL")

C4_Witness ==
  \E w \in Walkers :
    /\ Returned(w) /\ ~output_file /\ frame[w].wres = "ok"
    /\ delimiter = "Null"
    /\ Len(log) >= 2

\* C5: a flush failure, on the file target or on the default sink, after a
\* write that succeeded or failed, ends the process: the invocation gets no
\* return value and no invocation with a failed flush ever returns.
C5_FlushFailureEscalates ==
  /\ \A w \in Walkers :
       frame[w].fres = "err" =>
         panicked = "flush" /\ frame[w].ret = "none" /\ pc[w] = "flush"
  /\ \A i \in 1..Len(log) : log[i].fres = "ok"

C5_Witness ==
  \E w \in Walkers :
    frame[w].fres = "err" /\ frame[w].wres = "err" /\ frame[w].out = "file"

Injective(f, n) == \A i, j \in 1..n : f[i] = f[j] => i = j

\* the records of the returned invocations, concatenated in any order
WholeRecordSequences ==
  LET n == Len(log)
  IN {ConcatInOrder([i \in 1..n |-> log[f[i]]]) :
        f \in {g \in [1..n -> 1..n] : Injective(g, n)}}

\* C6: under concurrent invocation against one destination the bytes of two
\* invocations never interleave: whenever no invocation is in progress and
\* every write succeeded, the destination holds whole path+delimiter
\* records, one per invocation.
C6_NoInterleaving ==
  (AllIdle /\ \A i \in 1..Len(log) : log[i].wres = "ok") =>
    Sink(Chosen).data \in WholeRecordSequences

\* C7: N sequential invocations against a working destination leave exactly
\* the N records, in call order, and nothing unflushed once a call returned.
C7_RecordsInCallOrder ==
  AllIdle =>
    /\ file.pending = 0 /\ output.pending = 0
    /\ (\A i \in 1..Len(log) : log[i].wres = "ok") =>
         Sink(Chosen).data = ConcatInOrder(log)

C7_Witness ==
  /\ AllIdle
  /\ Len(log) >= 2
  /\ \A i \in 1..Len(log) : log[i].wres = "ok"
  /\ log[1].path # log[2].path

\* C8: a Printer with a file target writes and flushes only the file and
\* leaves the default sink as it was, also when the write fails; a Printer
\* without one writes and flushes only the default sink.
C8_ExclusiveDestination ==
  /\ output_file =>
       /\ output = EmptySink
       /\ touched \subseteq {<<"file", "write">>, <<"file", "flush">>}
  /\ ~output_file =>
       /\ file = EmptySink
       /\ touched \subseteq {<<"output", "write">>, <<"output", "flush">>}
  /\ \A w \in Walkers : frame[w].out \in {"none", Chosen}

C8_Witness ==
  /\ output_file
  /\ touched = {<<"file", "write">>, <<"file", "flush">>}
  /\ \E i \in 1..Len(log) : log[i].wres = "err"
  /\ \E i \in 1..Len(log) : log[i].wres = "ok"

\* C9: the default sink is borrowed only while an invocation is in progress:
\* once matches has returned the sink is free, so the next invocation's
\* borrow_mut never finds it taken.
C9_SinkReleased ==
  /\ AllIdle => ~borrowed
  /\ panicked # "borrow"
  /\ output_file => ~borrowed

C9_Witness ==
  /\ ~output_file
  /\ AllIdle
  /\ Len(log) >= 2

\* C10: a step changes the exit code only in the Err arm of an invocation
\* whose write failed, and then to 1; no step takes a non-zero exit code
\* back to 0.
C10_ExitCodeMonotone ==
  [][ /\ exit_code' # exit_code =>
           /\ exit_code' = 1
           /\ \E w \in Walkers :
                /\ pc[w] = "write_err" /\ pc'[w] = "flush"
                /\ frame[w].wres = "err"
      /\ exit_code # 0 => exit_code' # 0 ]_vars

C10_Witness ==
  /\ Len(log) >= 2
  /\ log[1].wres = "err"
  /\ log[2].wres = "ok"
  /\ exit_code = 1

====
